---- MODULE Spec2Model ----
(***************************************************************************)
(* Archive discovery of kiwix-js: the two storage variants of              *)
(* www/js/lib/osabstraction.js (StorageFirefoxOS, StoragePhoneGap), the    *)
(* coordinator scanForArchives and the archive loaders of the backend      *)
(* module (src/unnamed/part_000).                                          *)
(*                                                                         *)
(* Strings are sequences of one-character strings, so that endsWith,       *)
(* lastIndexOf, substring, the regular expression and string               *)
(* concatenation are computed as the code computes them.                   *)
(*                                                                         *)
(* The platform is modelled by its documented contract: a DeviceStorage    *)
(* cursor delivers one file per step and then a null result; a             *)
(* DirectoryReader delivers the children of its directory in one batch, in *)
(* an order of its choosing; jQuery.Deferred runs its callbacks inside     *)
(* resolve()/reject(); a Q promise runs them in a later turn, in the order *)
(* of settlement; jQuery.when resolves when every promise has resolved and *)
(* rejects with the first rejection it is told of.                         *)
(***************************************************************************)
EXTENDS Integers, Sequences, FiniteSets, Bags, TLC

\* ------------------------------------------------------------------ bounds
MaxFiles == 2      \* files of a volume in SpecTree
MaxVolumes == 2    \* length of the coordinator's list of storages in Spec
MaxRounds == 2     \* invocations of the coordinator's scanForArchives in SpecTwice

\* ----------------------------------------------------------------- strings
Slash == <<"/">>
TitlesIdx == <<"t", "i", "t", "l", "e", "s", ".", "i", "d", "x">>
DotZim == <<".", "z", "i", "m">>
DotZimaa == <<".", "z", "i", "m", "a", "a">>

\* the file names of the model's volumes
NameTitles == TitlesIdx
NameZim == <<"a", ".", "z", "i", "m">>
NameZimUpper == <<"a", ".", "Z", "I", "M">>
NameZimaa == <<"b", ".", "z", "i", "m", "a", "a">>
NameTxt == <<"x", ".", "t", "x", "t">>

\* String.prototype.toLowerCase on the letters the names use
ToLowerChar(c) ==
  CASE c = "Z" -> "z"
    [] c = "I" -> "i"
    [] c = "M" -> "m"
    [] c = "A" -> "a"
    [] OTHER -> c

ToLower(str) == [k \in 1..Len(str) |-> ToLowerChar(str[k])]

\* util.endsWith(str, suffix): a case-sensitive suffix test
endsWith(str, suffix) ==
  /\ Len(str) >= Len(suffix)
  /\ SubSeq(str, Len(str) - Len(suffix) + 1, Len(str)) = suffix

\* /\.zim(aa)?$/i .test(name)
regexpZIMFileName(name) ==
  \/ endsWith(ToLower(name), DotZim)
  \/ endsWith(ToLower(name), DotZimaa)

\* String.prototype.lastIndexOf(c): 0-based index of the last c, -1 if none
lastIndexOf(str, c) ==
  IF \E k \in 1..Len(str) : str[k] = c
  THEN (CHOOSE k \in 1..Len(str) :
          str[k] = c /\ \A m \in (k + 1)..Len(str) : str[m] # c) - 1
  ELSE -1

\* String.prototype.substring(from, to) for 0 <= from <= to <= length
substring(str, from, to) == SubSeq(str, from + 1, to)

RECURSIVE Join(_, _)
\* the components of a path, each followed by sep
Join(comps, sep) ==
  IF comps = <<>> THEN <<>>
  ELSE Head(comps) \o sep \o Join(Tail(comps), sep)

\* ------------------------------------------------------------ the volumes
DirS == <<"s">>
DirT == <<"t">>
DirU == <<"u">>
RootPath == <<>>

\* a directory is named by the sequence of directory names leading to it
DirUniverse == <<RootPath, <<DirS>>, <<DirS, DirT>>, <<DirU>>>>
NameUniverse == <<NameTitles, NameZim, NameZimUpper, NameZimaa, NameTxt>>

\* every file a volume can hold, in the order the backend enumerates them
FileUniverse ==
  [k \in 1..(Len(DirUniverse) * Len(NameUniverse)) |->
     [dir |-> DirUniverse[((k - 1) \div Len(NameUniverse)) + 1],
      name |-> NameUniverse[((k - 1) % Len(NameUniverse)) + 1]]]

Range(seq) == {seq[k] : k \in 1..Len(seq)}

DirShapes ==
  { {RootPath},
    {RootPath, <<DirS>>},
    {RootPath, <<DirS>>, <<DirS, DirT>>},
    {RootPath, <<DirS>>, <<DirU>>},
    {RootPath, <<DirS>>, <<DirS, DirT>>, <<DirU>>} }

RECURSIVE SubsetsUpTo(_, _)
\* the subsets of S of at most n elements
SubsetsUpTo(S, n) ==
  IF n = 0 THEN {{}}
  ELSE LET smaller == SubsetsUpTo(S, n - 1)
       IN smaller \cup {T \cup {x} : T \in smaller, x \in S}

\* the finite directory trees of at most n files
TreesUpTo(n) ==
  UNION { { [dirs |-> D, files |-> F] :
              F \in SubsetsUpTo({f \in Range(FileUniverse) : f.dir \in D}, n) } :
          D \in DirShapes }

\* the trees of the volumes the coordinator is given in Spec
SmallTrees ==
  { [dirs |-> {RootPath, <<DirS>>}, files |-> F] :
      F \in SUBSET { [dir |-> RootPath, name |-> NameZim],
                     [dir |-> RootPath, name |-> NameTitles] } }

Variants == {"FirefoxOS", "PhoneGap"}

\* DeviceStorage: File.name is the path of the file on the volume, without a
\* leading separator; enumerate() yields every file of the volume
FileNameOf(f) == Join(f.dir, Slash) \o f.name

Enumeration(tree) ==
  LET inTree(f) == f \in tree.files
  IN SelectSeq(FileUniverse, inTree)

\* HTML5 FileSystem: Entry.fullPath is "/" for the root and the parent's
\* path, a separator and the name otherwise
RECURSIVE FullPath(_)
FullPath(path) ==
  IF path = <<>> THEN Slash
  ELSE IF Len(path) = 1 THEN Slash \o path[1]
  ELSE FullPath(SubSeq(path, 1, Len(path) - 1)) \o Slash \o path[Len(path)]

DirectoryEntry(path) ==
  [isDirectory |-> TRUE,
   name |-> IF path = <<>> THEN <<>> ELSE path[Len(path)],
   fullPath |-> FullPath(path),
   path |-> path]

FileEntry(f) ==
  [isDirectory |-> FALSE,
   name |-> f.name,
   fullPath |-> FullPath(Append(f.dir, f.name)),
   path |-> Append(f.dir, f.name)]

\* the children of a directory, as DirectoryReader.readEntries delivers them
Children(tree, path) ==
  { DirectoryEntry(d) : d \in { e \in tree.dirs :
        Len(e) = Len(path) + 1 /\ SubSeq(e, 1, Len(path)) = path } }
  \cup { FileEntry(f) : f \in { g \in tree.files : g.dir = path } }

RECURSIVE Perms(_)
\* the orders in which a batch can be delivered
Perms(S) ==
  IF S = {} THEN {<<>>}
  ELSE UNION { { <<x>> \o p : p \in Perms(S \ {x}) } : x \in S }

\* FileError codes of the HTML5 File API
NOT_FOUND_ERR == 1
SECURITY_ERR == 2
ABORT_ERR == 3
INVALID_STATE_ERR == 7
INVALID_MODIFICATION_ERR == 9
QUOTA_EXCEEDED_ERR == 10

\* StoragePhoneGap.prototype._errorCodeToString with the case of
\* INVALID_MODIFICATION_ERR falling through to the next one
errorCodeToStringFallThrough(code) ==
  CASE code = QUOTA_EXCEEDED_ERR -> "QUOTA_EXCEEDED_ERR"
    [] code = NOT_FOUND_ERR -> "NOT_FOUND_ERR"
    [] code = SECURITY_ERR -> "SECURITY_ERR"
    [] code = INVALID_MODIFICATION_ERR -> "INVALID_STATE_ERR"
    [] code = INVALID_STATE_ERR -> "INVALID_STATE_ERR"
    [] OTHER -> "Unknown Error"

\* StoragePhoneGap.prototype._errorCodeToString
errorCodeToString(code) ==
  CASE code = QUOTA_EXCEEDED_ERR -> "QUOTA_EXCEEDED_ERR"
    [] code = NOT_FOUND_ERR -> "NOT_FOUND_ERR"
    [] code = SECURITY_ERR -> "SECURITY_ERR"
    [] code = INVALID_MODIFICATION_ERR -> "INVALID_MODIFICATION_ERR"
    [] code = INVALID_STATE_ERR -> "INVALID_STATE_ERR"
    [] OTHER -> "Unknown Error"

\* the failures the backends of the model report
ListingErrorCodes == {NOT_FOUND_ERR, ABORT_ERR}
CursorErrors == {"NotFoundError", "SecurityError"}

\* ------------------------------------------------- classification of names
\* osabstraction.js 81-88: the directory of a marker file, as a substring of
\* the file's name that stops before the last separator
directoryWithoutSeparator(name) ==
  IF lastIndexOf(name, "/") # -1
  THEN substring(name, 0, lastIndexOf(name, "/"))
  ELSE Slash

\* osabstraction.js 81-88: the directory of a marker file, from its name
directoryOfMarker(name) ==
  IF lastIndexOf(name, "/") # -1
  THEN substring(name, 0, lastIndexOf(name, "/") + 1)
  ELSE Slash

\* osabstraction.js 76-92: what cursor.onsuccess pushes for one file
classifyFile(name) ==
  IF endsWith(name, TitlesIdx) THEN <<directoryOfMarker(name)>>
  ELSE IF regexpZIMFileName(name) THEN <<name>>
  ELSE <<>>

\* osabstraction.js 172-175: the directory of a marker file, from dir.fullPath
pathOfMarker(fullPath) ==
  IF Len(fullPath) = 0 \/ fullPath[Len(fullPath)] # "/"
  THEN fullPath \o Slash
  ELSE fullPath

\* osabstraction.js 171-179: what dirReaderSuccess pushes for one file entry
classifyEntry(dir, entry) ==
  IF endsWith(entry.name, TitlesIdx) THEN <<pathOfMarker(dir.fullPath)>>
  ELSE IF endsWith(entry.name, DotZim)
       THEN <<dir.fullPath \o Slash \o entry.name>>
  ELSE <<>>

\* osabstraction.js 170: stack.push(entry), as an assignment of a new stack
pushReplacing(stk, entry) == <<entry>>

\* osabstraction.js 170: stack.push(entry)
push(stk, entry) == Append(stk, entry)

RECURSIVE processEntries(_, _, _, _, _)
\* osabstraction.js 167-180: the loop of dirReaderSuccess over one batch;
\* seen is the bag of the files the loop has classified
processEntries(entries, dir, stk, acc, seen) ==
  IF entries = <<>>
  THEN [stack |-> stk, directories |-> acc, classified |-> seen]
  ELSE LET entry == Head(entries)
       IN IF entry.isDirectory
          THEN processEntries(Tail(entries), dir, push(stk, entry), acc, seen)
          ELSE processEntries(Tail(entries), dir, stk,
                              acc \o classifyEntry(dir, entry),
                              seen (+) SetToBag({entry.path}))

\* part_000 26-34: the archive loadArchiveFromDeviceStorage constructs
loadArchiveFromDeviceStorage(storage, path) ==
  IF endsWith(path, DotZim)
  THEN [kind |-> "ZIMArchive", storage |-> storage, path |-> path]
  ELSE [kind |-> "LocalArchive", storage |-> storage, path |-> path]

\* part_000 35-39: the archive loadArchiveFromFiles constructs
loadArchiveFromFiles ==
  [kind |-> "LocalArchive", storage |-> 0, path |-> <<>>]

NoArchive == [kind |-> "none", storage |-> 0, path |-> <<>>]

\* part_000 63: what the failure handler passes to callbackFunction
callbackWithPartial(dirs) == [isNull |-> FALSE, list |-> dirs]

failureArgument(dirs) == [isNull |-> TRUE, list |-> <<>>]

\* part_000 51: jQuery.merge(directories, dirs), as an assignment
mergeOverwrite(first, second) == second

\* part_000 51: jQuery.merge(directories, dirs), with its arguments exchanged
mergeInFront(first, second) == second \o first

merge(first, second) == first \o second

\* osabstraction.js 62, 161: an accumulator that outlives the invocation
staleDirectories(old) == old

\* osabstraction.js 62, 161: var directories = [] of a new invocation
newDirectories(old) == <<>>

\* osabstraction.js 191: the reader is created on the bottom of the stack
directoryAtBottom(stk) == stk[1]

\* osabstraction.js 191: stack[stack.length - 1].createReader()
directoryToRead(stk) == stk[Len(stk)]

\* osabstraction.js 68-94: cursor.continue() called twice for one entry
continueTwice(hasResult) == IF hasResult THEN 2 ELSE 0

\* osabstraction.js 68-94: cursor.continue() never called
continueNever(hasResult) == IF hasResult THEN 0 ELSE 0

\* osabstraction.js 68-94: cursor.continue() called without the early return
continueAlways(hasResult) == IF hasResult THEN 1 ELSE 1

\* osabstraction.js 68-94: the calls of cursor.continue() one run of
\* cursor.onsuccess makes: none after the early return, one otherwise
continueCalls(hasResult) == IF hasResult THEN 1 ELSE 0

\* part_000 55: jQuery.when that waits although it was given no promise
whenAlwaysPending(n) == IF n = 0 THEN "pending" ELSE "pending"

\* part_000 55: the state of the promise jQuery.when returns for n pending
\* promises
whenState(n) == IF n = 0 THEN "resolved" ELSE "pending"

\* osabstraction.js 62, 161: one accumulator for every invocation
sharedAccumulator(i) == IF i = 1 THEN 1 ELSE 1

\* osabstraction.js 62, 161: var directories is a local of the invocation for
\* storage i; accumulatorOf names the array its callbacks push to
accumulatorOf(i) == i

\* ------------------------------------------------------------------- state
VARIABLES
  storages,      \* part_000 46: the list of storages given to the coordinator
  budget,        \* invocations of scanForArchives the caller has yet to make
  deferred,      \* per storage: the deferred of its scanForArchives
  scanDirs,      \* per storage: var directories of its scanForArchives
  cursor,        \* FirefoxOS: files the cursor has delivered so far
  stack,         \* PhoneGap: var stack
  reader,        \* PhoneGap: the directory whose readEntries is outstanding
  outstanding,   \* per storage: backend requests not yet answered
  qQueue,        \* settled Q promises whose then-callbacks have not run yet
  directories,   \* part_000 47: var directories of the coordinator
  remaining,     \* jQuery.when: promises not yet resolved
  master,        \* jQuery.when: state of the aggregate promise
  alerts,        \* errors shown with alert() by this invocation
  callbackArgs,  \* arguments callbackFunction was called with, in order
  settled,       \* the storages whose scan has settled, in order of settlement
  archive,       \* the archive the last call of a loader returned
  prevResults,   \* per storage: the outcome of its scan in the previous round
  failure,       \* per storage: the error its backend reported to the scan
  continues,     \* FirefoxOS: calls of cursor.continue() so far
  listed,        \* PhoneGap: bag of the directories whose listing was handled
  classified,    \* PhoneGap: bag of the files the loop has classified
  getRequest     \* the call of get() in progress, its stage and its outcome

vars == <<storages, budget, deferred, scanDirs, cursor, stack, reader,
          outstanding, qQueue, directories, remaining, master, alerts,
          callbackArgs, settled, archive, prevResults, failure, continues,
          listed, classified, getRequest>>

scanVars == <<deferred, scanDirs, cursor, stack, reader, outstanding, settled>>
whenVars == <<directories, remaining, master, alerts, callbackArgs>>
histVars == <<failure, continues, listed, classified>>

Storages == 1..Len(storages)

Idle == [state |-> "idle", value |-> <<>>, error |-> ""]
Pending == [state |-> "pending", value |-> <<>>, error |-> ""]
Resolved(dirs) == [state |-> "resolved", value |-> dirs, error |-> ""]
Rejected(error) == [state |-> "rejected", value |-> <<>>, error |-> error]

NoFailure == [code |-> 0, name |-> ""]
NoGet == [state |-> "idle", storage |-> 0, path |-> <<>>, code |-> 0,
          error |-> ""]

\* osabstraction.js 65: cursor.onerror that resolves with what was found
resolveOnCursorError(acc, error) == Resolved(acc)

\* osabstraction.js 65: deferred.reject(cursor.error)
rejectWithCursorError(acc, error) == Rejected(error)

\* osabstraction.js 184: dirReaderFail that resolves with what was found
resolveOnListingError(acc, code) == Resolved(acc)

\* osabstraction.js 184: deferred.reject(that._errorCodeToString(error.code))
rejectWithListingError(acc, code) == Rejected(errorCodeToString(code))

\* the state before the first invocation, for a given list of storages
InitWith(list, calls) ==
  /\ storages = list
  /\ budget = calls
  /\ deferred = [i \in 1..Len(list) |-> Idle]
  /\ scanDirs = [i \in 1..Len(list) |-> <<>>]
  /\ cursor = [i \in 1..Len(list) |-> 0]
  /\ stack = [i \in 1..Len(list) |-> <<>>]
  /\ reader = [i \in 1..Len(list) |-> <<>>]
  /\ outstanding = [i \in 1..Len(list) |-> 0]
  /\ qQueue = <<>>
  /\ directories = <<>>
  /\ remaining = 0
  /\ master = "idle"
  /\ alerts = <<>>
  /\ callbackArgs = <<>>
  /\ settled = <<>>
  /\ archive = NoArchive
  /\ prevResults = [i \in 1..Len(list) |-> Idle]
  /\ failure = [i \in 1..Len(list) |-> NoFailure]
  /\ continues = [i \in 1..Len(list) |-> 0]
  /\ listed = [i \in 1..Len(list) |-> EmptyBag]
  /\ classified = [i \in 1..Len(list) |-> EmptyBag]
  /\ getRequest = NoGet

\* the application constructs storages of one variant only
StorageLists(trees, maxLen) ==
  UNION { UNION { [1..n -> {[variant |-> v, tree |-> t] : t \in trees}] :
                    n \in 0..maxLen } : v \in Variants }

Init == \E list \in StorageLists(SmallTrees, MaxVolumes) : InitWith(list, 1)

\* one volume of any bounded tree
InitTree ==
  \E v \in Variants, t \in TreesUpTo(MaxFiles) :
    InitWith(<<[variant |-> v, tree |-> t]>>, 1)

\* the trees of the volume that is scanned repeatedly in SpecTwice
TwiceTrees ==
  { [dirs |-> {RootPath, <<DirS>>}, files |-> F] :
      F \in SubsetsUpTo({ [dir |-> d, name |-> n] :
                            d \in {RootPath, <<DirS>>},
                            n \in {NameTitles, NameZim} }, MaxFiles) }

\* one volume scanned by two overlapping invocations, MaxRounds times over
InitTwice ==
  \E v \in Variants, t \in TwiceTrees :
    LET storage == [variant |-> v, tree |-> t]
    IN InitWith(<<storage, storage>>, MaxRounds)

\* ----------------------------------------------------------- coordinator
\* part_000 50-53 and 55-56: the then-callback of one resolved scan, followed
\* by jQuery.when's count and, when every scan has resolved, the success
\* handler
fulfilled(i, dirs) ==
  /\ directories' = merge(directories, dirs)
  /\ remaining' = remaining - 1
  /\ IF remaining = 1 /\ master = "pending"
     THEN /\ master' = "resolved"
          /\ callbackArgs' = Append(callbackArgs,
                               [isNull |-> FALSE, list |-> directories'])
     ELSE UNCHANGED <<master, callbackArgs>>
  /\ UNCHANGED alerts

\* part_000 57-64: a rejected scan rejects the aggregate unless it is settled
\* already; the failure handler then alerts and calls back
rejected(error) ==
  /\ IF master = "pending"
     THEN /\ master' = "rejected"
          /\ alerts' = Append(alerts, error)
          /\ callbackArgs' = Append(callbackArgs, failureArgument(directories))
     ELSE UNCHANGED <<master, alerts, callbackArgs>>
  /\ UNCHANGED <<directories, remaining>>

\* part_000 49-64: the callbacks the coordinator attached to the promise of
\* storage i, run for the outcome d of that promise
notify(i, d) ==
  IF d.state = "resolved" THEN fulfilled(i, d.value) ELSE rejected(d.error)

Quiescent ==
  /\ qQueue = <<>>
  /\ \A i \in Storages : deferred[i].state # "pending"
  /\ getRequest.state \notin {"getFile", "file", "request"}

\* part_000 46-65 with osabstraction.js 60-66 and 158-163, 194: the coordinator
\* starts the scan of every storage in one turn
scanForArchives ==
  /\ budget > 0
  /\ Quiescent
  /\ budget' = budget - 1
  /\ prevResults' = deferred
  /\ deferred' = [i \in Storages |-> Pending]
  /\ scanDirs' = [i \in Storages |-> newDirectories(scanDirs[i])]
  /\ cursor' = [i \in Storages |-> 0]
  /\ stack' = [i \in Storages |->
                 IF storages[i].variant = "PhoneGap"
                 THEN <<DirectoryEntry(RootPath)>> ELSE <<>>]
  /\ reader' = [i \in Storages |->
                  IF storages[i].variant = "PhoneGap"
                  THEN <<directoryToRead(stack'[i])>> ELSE <<>>]
  /\ outstanding' = [i \in Storages |-> 1]
  /\ directories' = <<>>
  /\ remaining' = Len(storages)
  /\ settled' = <<>>
  /\ alerts' = <<>>
  /\ master' = whenState(Len(storages))
  /\ IF master' = "resolved"
     THEN callbackArgs' = <<[isNull |-> FALSE, list |-> <<>>]>>
     ELSE callbackArgs' = <<>>
  /\ archive' = NoArchive
  /\ failure' = [i \in Storages |-> NoFailure]
  /\ continues' = [i \in Storages |-> 0]
  /\ listed' = [i \in Storages |-> EmptyBag]
  /\ classified' = [i \in Storages |-> EmptyBag]
  /\ getRequest' = NoGet
  /\ UNCHANGED <<storages, qQueue>>

\* ------------------------------------------------------- StorageFirefoxOS
\* osabstraction.js 67-95: cursor.onsuccess
cursorOnSuccess(i) ==
  /\ storages[i].variant = "FirefoxOS"
  /\ deferred[i].state = "pending"
  /\ outstanding[i] = 1
  /\ LET enum == Enumeration(storages[i].tree)
         hasResult == cursor[i] < Len(enum)
         acc == accumulatorOf(i)
     IN /\ outstanding' = [outstanding EXCEPT ![i] =
                             @ - 1 + continueCalls(hasResult)]
        /\ continues' = [continues EXCEPT ![i] = @ + continueCalls(hasResult)]
        /\ IF ~hasResult
           THEN \* no cursor.result: resolve, and jQuery runs the callbacks
                /\ deferred' = [deferred EXCEPT ![i] = Resolved(scanDirs[acc])]
                /\ settled' = Append(settled, i)
                /\ notify(i, deferred'[i])
                /\ UNCHANGED <<scanDirs, cursor>>
           ELSE \* classify the file and ask for the next one
                /\ scanDirs' = [scanDirs EXCEPT ![acc] =
                      @ \o classifyFile(FileNameOf(enum[cursor[i] + 1]))]
                /\ cursor' = [cursor EXCEPT ![i] = @ + 1]
                /\ UNCHANGED <<deferred, settled, whenVars>>
  /\ UNCHANGED <<storages, budget, stack, reader, qQueue, archive, prevResults,
                 failure, listed, classified, getRequest>>

\* osabstraction.js 64-66: cursor.onerror
cursorOnError(i, error) ==
  /\ storages[i].variant = "FirefoxOS"
  /\ deferred[i].state = "pending"
  /\ outstanding[i] = 1
  /\ failure' = [failure EXCEPT ![i] = [code |-> 0, name |-> error]]
  /\ deferred' = [deferred EXCEPT ![i] =
                    rejectWithCursorError(scanDirs[accumulatorOf(i)], error)]
  /\ outstanding' = [outstanding EXCEPT ![i] = 0]
  /\ settled' = Append(settled, i)
  /\ notify(i, deferred'[i])
  /\ UNCHANGED <<storages, budget, scanDirs, cursor, stack, reader, qQueue,
                 archive, prevResults, continues, listed, classified,
                 getRequest>>

\* -------------------------------------------------------- StoragePhoneGap
\* osabstraction.js 164-182 and 186-193: dirReaderSuccess, then iteration()
dirReaderSuccess(i, entries) ==
  /\ storages[i].variant = "PhoneGap"
  /\ deferred[i].state = "pending"
  /\ outstanding[i] = 1
  /\ entries \in Perms(Children(storages[i].tree, reader[i][1].path))
  /\ LET dir == stack[i][Len(stack[i])]
         popped == SubSeq(stack[i], 1, Len(stack[i]) - 1)
         acc == accumulatorOf(i)
         r == processEntries(entries, dir, popped, scanDirs[acc],
                             classified[i])
     IN /\ stack' = [stack EXCEPT ![i] = r.stack]
        /\ scanDirs' = [scanDirs EXCEPT ![acc] = r.directories]
        /\ classified' = [classified EXCEPT ![i] = r.classified]
        /\ listed' = [listed EXCEPT ![i] = @ (+) SetToBag({reader[i][1].path})]
        /\ IF Len(r.stack) = 0
           THEN /\ deferred' = [deferred EXCEPT ![i] = Resolved(r.directories)]
                /\ qQueue' = Append(qQueue, i)
                /\ settled' = Append(settled, i)
                /\ reader' = [reader EXCEPT ![i] = <<>>]
                /\ outstanding' = [outstanding EXCEPT ![i] = 0]
           ELSE /\ reader' = [reader EXCEPT ![i] = <<directoryToRead(r.stack)>>]
                /\ outstanding' = [outstanding EXCEPT ![i] = @ - 1 + 1]
                /\ UNCHANGED <<deferred, qQueue, settled>>
  /\ UNCHANGED <<storages, budget, cursor, whenVars, archive, prevResults,
                 failure, continues, getRequest>>

\* osabstraction.js 183-185: dirReaderFail
dirReaderFail(i, code) ==
  /\ storages[i].variant = "PhoneGap"
  /\ deferred[i].state = "pending"
  /\ outstanding[i] = 1
  /\ failure' = [failure EXCEPT ![i] = [code |-> code, name |-> ""]]
  /\ deferred' = [deferred EXCEPT ![i] =
                    rejectWithListingError(scanDirs[accumulatorOf(i)], code)]
  /\ qQueue' = Append(qQueue, i)
  /\ settled' = Append(settled, i)
  /\ reader' = [reader EXCEPT ![i] = <<>>]
  /\ outstanding' = [outstanding EXCEPT ![i] = 0]
  /\ UNCHANGED <<storages, budget, scanDirs, cursor, stack, whenVars, archive,
                 prevResults, continues, listed, classified, getRequest>>

\* part_000 49-64: a later turn in which Q runs the callbacks of the promise
\* that settled first
qDeliver ==
  /\ qQueue # <<>>
  /\ notify(Head(qQueue), deferred[Head(qQueue)])
  /\ qQueue' = Tail(qQueue)
  /\ UNCHANGED <<storages, budget, scanVars, archive, prevResults, histVars,
                 getRequest>>

\* ------------------------------------------------------------ the loaders
\* part_000 26-34: the caller loads one of the paths the callback was given
loadFromDeviceStorage(i, path) ==
  /\ master = "resolved"
  /\ i \in Storages
  /\ \E k \in 1..Len(callbackArgs) :
       ~callbackArgs[k].isNull /\ path \in Range(callbackArgs[k].list)
  /\ archive' = loadArchiveFromDeviceStorage(i, path)
  /\ UNCHANGED <<storages, budget, scanVars, qQueue, whenVars, prevResults,
                 histVars, getRequest>>

\* part_000 35-39: the caller loads a set of files it picked itself, between
\* two scans
loadFromFiles ==
  /\ master # "idle"
  /\ Quiescent
  /\ archive' = loadArchiveFromFiles
  /\ UNCHANGED <<storages, budget, scanVars, qQueue, whenVars, prevResults,
                 histVars, getRequest>>

Next ==
  \/ scanForArchives
  \/ \E i \in Storages : cursorOnSuccess(i)
  \/ \E i \in Storages, error \in CursorErrors : cursorOnError(i, error)
  \/ \E i \in Storages :
       \E entries \in Perms(Children(storages[i].tree,
                                     IF reader[i] = <<>> THEN RootPath
                                     ELSE reader[i][1].path)) :
         dirReaderSuccess(i, entries)
  \/ \E i \in Storages, code \in ListingErrorCodes : dirReaderFail(i, code)
  \/ qDeliver
  \/ \E i \in Storages, path \in Range(directories) :
       loadFromDeviceStorage(i, path)
  \/ loadFromFiles

Spec == Init /\ [][Next]_vars

SpecTree == InitTree /\ [][Next]_vars

SpecTwice == InitTwice /\ [][Next]_vars

\* the backend of storage i answers the request that is outstanding
Answer(i) ==
  /\ i \in Storages
  /\ \/ cursorOnSuccess(i)
     \/ \E error \in CursorErrors : cursorOnError(i, error)
     \/ \E entries \in Perms(Children(storages[i].tree,
                                       IF reader[i] = <<>> THEN RootPath
                                       ELSE reader[i][1].path)) :
          dirReaderSuccess(i, entries)
     \/ \E code \in ListingErrorCodes : dirReaderFail(i, code)

\* one volume of any bounded tree, with a backend that answers every request
SpecLive ==
  InitTree /\ [][Next]_vars /\ \A i \in 1..MaxVolumes : WF_vars(Answer(i))

\* -------------------------------------------------------------------- get
FilePrefix == <<"f", "i", "l", "e", ":", "/", "/">>

\* String.prototype.substr(start, length)
substr(str, start, length) ==
  SubSeq(str, start + 1, IF start + length < Len(str) THEN start + length
                         ELSE Len(str))

\* osabstraction.js 147-149: the path get() hands to getFile
withoutFilePrefix(path) ==
  IF substr(path, 0, 7) = FilePrefix THEN substr(path, 7, Len(path)) ELSE path

\* the paths the callers of get() ask for
GetPaths ==
  { FullPath(<<NameZim>>), FilePrefix \o FullPath(<<NameZim>>),
    FullPath(<<NameTxt>>) }

\* the codes of FileError
FileErrorCodes == 1..12

\* the backend finds a file of the volume under the path it is given
Finds(tree, path) ==
  \E f \in tree.files :
    path \in {FullPath(Append(f.dir, f.name)), FileNameOf(f)}

getVars == <<storages, budget, scanVars, qQueue, whenVars, archive,
             prevResults, histVars>>

\* osabstraction.js 48-51 and 132-150: get(path) up to the request it makes
get(i, path) ==
  /\ getRequest.state \notin {"getFile", "file", "request"}
  /\ getRequest' =
       IF storages[i].variant = "PhoneGap"
       THEN [state |-> "getFile", storage |-> i,
             path |-> withoutFilePrefix(path), code |-> 0, error |-> ""]
       ELSE [state |-> "request", storage |-> i, path |-> path, code |-> 0,
             error |-> ""]
  /\ UNCHANGED getVars

\* osabstraction.js 143-145: onSuccessInt asks the entry for its file
getOnSuccessInt ==
  /\ getRequest.state = "getFile"
  /\ Finds(storages[getRequest.storage].tree, getRequest.path)
  /\ getRequest' = [getRequest EXCEPT !.state = "file"]
  /\ UNCHANGED getVars

\* osabstraction.js 136-138: onSuccess
getOnSuccess ==
  /\ getRequest.state = "file"
  /\ getRequest' = [getRequest EXCEPT !.state = "resolved"]
  /\ UNCHANGED getVars

\* osabstraction.js 139-142: onError, the failure callback of getFile and of
\* fileEntry.file
getOnError(code) ==
  /\ getRequest.state \in {"getFile", "file"}
  /\ getRequest' = [getRequest EXCEPT !.state = "rejected", !.code = code,
                                      !.error = errorCodeToString(code)]
  /\ UNCHANGED getVars

\* osabstraction.js 51: request.onsuccess
requestOnSuccess ==
  /\ getRequest.state = "request"
  /\ Finds(storages[getRequest.storage].tree, getRequest.path)
  /\ getRequest' = [getRequest EXCEPT !.state = "resolved"]
  /\ UNCHANGED getVars

\* osabstraction.js 52: request.onerror
requestOnError(name) ==
  /\ getRequest.state = "request"
  /\ getRequest' = [getRequest EXCEPT !.state = "rejected", !.error = name]
  /\ UNCHANGED getVars

NextGet ==
  \/ Next
  \/ \E i \in Storages, path \in GetPaths : get(i, path)
  \/ getOnSuccessInt
  \/ getOnSuccess
  \/ \E code \in FileErrorCodes : getOnError(code)
  \/ requestOnSuccess
  \/ \E name \in CursorErrors : requestOnError(name)

\* one volume of a small tree
InitGet ==
  \E v \in Variants, t \in SmallTrees :
    InitWith(<<[variant |-> v, tree |-> t]>>, 1)

\* one volume whose files are fetched while it is scanned
SpecGet == InitGet /\ [][NextGet]_vars

\* ------------------------------------------------------ claims: coordinator
SomeRejected == \E i \in Storages : deferred[i].state = "rejected"
AllResolved == \A i \in Storages : deferred[i].state = "resolved"

\* the first storage, in order of settlement, whose scan was rejected
FirstRejected ==
  settled[CHOOSE k \in 1..Len(settled) :
            /\ deferred[settled[k]].state = "rejected"
            /\ \A m \in 1..(k - 1) : deferred[settled[m]].state # "rejected"]

RECURSIVE ConcatResults(_)
\* the results of the scans of the storages named by order, concatenated
ConcatResults(order) ==
  IF order = <<>> THEN <<>>
  ELSE deferred[Head(order)].value \o ConcatResults(Tail(order))

Count(seq, x) == Cardinality({k \in 1..Len(seq) : seq[k] = x})

\* C1: once a scan of the list has been rejected, callbackFunction is never
\* given a list that holds a path, the aggregate promise never resolves, and
\* when the aggregate has failed the error reported is the error of the scan
\* that was rejected first.
C1_AllOrNothing ==
  SomeRejected =>
    /\ master # "resolved"
    /\ \A k \in 1..Len(callbackArgs) :
         callbackArgs[k].isNull \/ callbackArgs[k].list = <<>>
    /\ master = "rejected" => alerts = <<deferred[FirstRejected].error>>

\* C1 witness: one scan has resolved with a path, a later one was rejected,
\* and the aggregate has failed.
C1_Witness ==
  /\ master = "rejected"
  /\ Len(callbackArgs) = 1
  /\ \E i, j \in Storages :
       /\ deferred[i].state = "resolved" /\ deferred[i].value # <<>>
       /\ deferred[j].state = "rejected"
       /\ directories # <<>>

\* C2 (as stated): on success the list given to callbackFunction is the
\* concatenation of the scans' results in the order of the list of storages.
C2_VolumeListOrder ==
  master = "resolved" =>
    callbackArgs[1].list = ConcatResults([i \in Storages |-> i])

\* C2 (amended): on success the list given to callbackFunction is the
\* concatenation of the scans' results in the order in which the scans
\* resolved, each result in its own order.
C2_CompletionOrder ==
  master = "resolved" =>
    /\ Len(callbackArgs) = 1
    /\ ~callbackArgs[1].isNull
    /\ callbackArgs[1].list = ConcatResults(settled)

\* C2 witness: two scans with different non-empty results have resolved, the
\* second storage first, and the callback has its list.
C2_Witness ==
  /\ master = "resolved"
  /\ Len(storages) = 2
  /\ settled = <<2, 1>>
  /\ deferred[1].value # <<>>
  /\ deferred[2].value # <<>>
  /\ deferred[1].value # deferred[2].value

\* C3: callbackFunction is called at most once; it is given a list only when
\* every scan has resolved; once every scan has resolved and its callbacks have
\* run it has been called exactly once, with a list that holds every path as
\* often as the results of the scans hold it together.
C3_EachContributionOnce ==
  /\ Len(callbackArgs) <= 1
  /\ (\E k \in 1..Len(callbackArgs) : ~callbackArgs[k].isNull) => AllResolved
  /\ (master # "idle" /\ AllResolved /\ qQueue = <<>>) =>
       /\ Len(callbackArgs) = 1
       /\ ~callbackArgs[1].isNull
       /\ Len(callbackArgs[1].list) = Len(ConcatResults([i \in Storages |-> i]))
       /\ \A x \in Range(ConcatResults([i \in Storages |-> i]))
                   \cup Range(callbackArgs[1].list) :
            Count(callbackArgs[1].list, x)
              = Count(ConcatResults([i \in Storages |-> i]), x)

\* C3 witness: two scans have resolved, both with paths, and the callback has
\* been called.
C3_Witness ==
  /\ Len(storages) = 2
  /\ AllResolved
  /\ qQueue = <<>>
  /\ Len(deferred[1].value) = 2
  /\ deferred[2].value # <<>>
  /\ Len(callbackArgs) = 1

\* C9: when the aggregate has failed, one error has been reported and
\* callbackFunction has been called exactly once, with an empty list.
C9_DegradedButAlive ==
  master = "rejected" =>
    /\ Len(alerts) = 1
    /\ Len(callbackArgs) = 1
    /\ ~callbackArgs[1].isNull
    /\ callbackArgs[1].list = <<>>

\* ------------------------------------------------------- claims: the scans
\* the naming rule as the specification words it
MatchesDirectoryForm(name) == endsWith(name, TitlesIdx)

MatchesFileForm(name) ==
  /\ ~MatchesDirectoryForm(name)
  /\ \/ endsWith(ToLower(name), DotZim)
     \/ endsWith(ToLower(name), DotZimaa)

RECURSIVE StripLeadingSlashes(_)
StripLeadingSlashes(str) ==
  IF str # <<>> /\ Head(str) = "/" THEN StripLeadingSlashes(Tail(str))
  ELSE str

\* entry names the file f, however many separators precede it
Denotes(entry, f) == StripLeadingSlashes(entry) = FileNameOf(f)

EndsWithSlash(entry) == entry # <<>> /\ entry[Len(entry)] = "/"

\* the path of the directory d of a volume with one trailing separator
ExpectedDirectory(variant, d) ==
  IF d = <<>> THEN Slash
  ELSE IF variant = "FirefoxOS" THEN Join(d, Slash)
  ELSE FullPath(d) \o Slash

\* the full path of the file f on its volume, as its backend names it
ExpectedFilePath(variant, f) ==
  IF variant = "FirefoxOS" THEN FileNameOf(f)
  ELSE FullPath(Append(f.dir, f.name))

\* C4: a resolved scan of either variant holds one entry per file whose name
\* ends in titles.idx or matches .zim / .zimaa in any letter case, and no
\* entry for another file.
C4_OneEntryPerArchive ==
  \A i \in Storages :
    deferred[i].state = "resolved" =>
      LET files == storages[i].tree.files
          result == deferred[i].value
      IN /\ Len(result) = Cardinality({f \in files :
                \/ MatchesDirectoryForm(f.name)
                \/ MatchesFileForm(f.name)})
         /\ \A f \in files :
              Cardinality({k \in 1..Len(result) : Denotes(result[k], f)})
                = IF MatchesFileForm(f.name) THEN 1 ELSE 0

\* C5: in a resolved scan of either variant, two files of one directory whose
\* names differ only in letter case both have a file-form entry or neither
\* has.
C5_CaseInsensitive ==
  \A i \in Storages :
    deferred[i].state = "resolved" =>
      \A f, g \in storages[i].tree.files :
        (f.dir = g.dir /\ ToLower(f.name) = ToLower(g.name)) =>
          ((\E k \in 1..Len(deferred[i].value) :
               Denotes(deferred[i].value[k], f))
           <=> (\E k \in 1..Len(deferred[i].value) :
               Denotes(deferred[i].value[k], g)))

\* C6: in a resolved scan of either variant, every directory that holds a
\* marker file titles.idx has exactly one entry, the path of that directory
\* followed by one separator ("/" for the root); the entries that end in a
\* separator are these and no others, and none ends in two separators.
C6_SplitPathNormalization ==
  \A i \in Storages :
    deferred[i].state = "resolved" =>
      LET tree == storages[i].tree
          variant == storages[i].variant
          result == deferred[i].value
          markers == {f \in tree.files : MatchesDirectoryForm(f.name)}
      IN /\ \A d \in tree.dirs :
              Count(result, ExpectedDirectory(variant, d))
                = Cardinality({f \in markers : f.dir = d})
         /\ \A k \in 1..Len(result) :
              EndsWithSlash(result[k]) =>
                /\ \E f \in markers :
                     result[k] = ExpectedDirectory(variant, f.dir)
                /\ Len(result[k]) = 1 \/ result[k][Len(result[k]) - 1] # "/"

\* C6 witness: a scan has resolved on a volume with a marker file in the root
\* and another in a subdirectory.
C6_Witness ==
  \E i \in Storages :
    /\ deferred[i].state = "resolved"
    /\ [dir |-> RootPath, name |-> NameTitles] \in storages[i].tree.files
    /\ [dir |-> <<DirS>>, name |-> NameTitles] \in storages[i].tree.files
    /\ Len(deferred[i].value) = 2

\* C7: in a resolved scan of either variant, every entry that is not a
\* directory entry is the full path of a file of the volume.
C7_FullPathOfFile ==
  \A i \in Storages :
    deferred[i].state = "resolved" =>
      \A k \in 1..Len(deferred[i].value) :
        ~EndsWithSlash(deferred[i].value[k]) =>
          \E f \in storages[i].tree.files :
            deferred[i].value[k] = ExpectedFilePath(storages[i].variant, f)

\* C8: loadArchiveFromDeviceStorage constructs a ZIMArchive exactly for the
\* paths that end in .zim or .zimaa in any letter case and a LocalArchive for
\* the others; loadArchiveFromFiles constructs a LocalArchive.
C8_DispatchAgrees ==
  archive.kind # "none" =>
    IF archive.storage # 0
    THEN archive.kind = "ZIMArchive" <=> MatchesFileForm(archive.path)
    ELSE archive.kind = "LocalArchive"

\* two results of scans of one volume agree: as sets, and for the cursor
\* variant element by element
SameResults(variant, a, b) ==
  /\ Range(a) = Range(b)
  /\ variant = "FirefoxOS" => a = b

\* C10: two invocations of scanForArchives on one volume, overlapping or one
\* after the other, that both resolve have set-equal results, and identical
\* results for the cursor variant.
C10_Idempotent ==
  \A i, j \in Storages :
    storages[i] = storages[j] =>
      /\ (deferred[i].state = "resolved" /\ deferred[j].state = "resolved") =>
           SameResults(storages[i].variant, deferred[i].value,
                       deferred[j].value)
      /\ (deferred[i].state = "resolved" /\ prevResults[j].state = "resolved")
           => SameResults(storages[i].variant, deferred[i].value,
                          prevResults[j].value)

\* C10 witness: a volume has been scanned by two overlapping invocations and
\* then by two more, all have resolved with entries, and the tree scans have
\* found them in different orders.
C10_Witness ==
  /\ budget = 0
  /\ Len(storages) = 2
  /\ storages[1] = storages[2]
  /\ deferred[1].state = "resolved"
  /\ deferred[2].state = "resolved"
  /\ prevResults[1].state = "resolved"
  /\ Len(deferred[1].value) = 2
  /\ deferred[1].value # deferred[2].value

\* ------------------------------------------- claims: errors and sequencing
NoListDelivered == \A k \in 1..Len(callbackArgs) : callbackArgs[k].isNull

\* C11: once a directory listing of the tree scan has failed, whatever was
\* accumulated, the promise of the scan is rejected with the string the error
\* code maps to, it stays rejected, and no list is handed to the caller.
C11_ErrorDiscard ==
  \A i \in Storages :
    failure[i].code # 0 =>
      /\ deferred[i].state = "rejected"
      /\ deferred[i].value = <<>>
      /\ deferred[i].error \in {"NOT_FOUND_ERR", "Unknown Error"}
      /\ (failure[i].code = NOT_FOUND_ERR) = (deferred[i].error = "NOT_FOUND_ERR")
      /\ NoListDelivered

\* C11 witness: the tree scan had accumulated two matches when a listing
\* failed, and the failure has reached the coordinator.
C11_Witness ==
  \E i \in Storages :
    /\ storages[i].variant = "PhoneGap"
    /\ failure[i].code # 0
    /\ Len(scanDirs[i]) = 2
    /\ qQueue = <<>>
    /\ master = "rejected"

\* C12: once the cursor has reported an error, the promise of the cursor scan
\* is rejected with that error, it stays rejected, no further step is
\* requested and no list is handed to the caller.
C12_CursorError ==
  \A i \in Storages :
    failure[i].name # "" =>
      /\ deferred[i].state = "rejected"
      /\ deferred[i].error = failure[i].name
      /\ deferred[i].value = <<>>
      /\ outstanding[i] = 0
      /\ NoListDelivered

\* C12 witness: the cursor scan had accumulated a match when the cursor
\* reported an error.
C12_Witness ==
  \E i \in Storages :
    /\ storages[i].variant = "FirefoxOS"
    /\ failure[i].name = "SecurityError"
    /\ scanDirs[i] # <<>>
    /\ master = "rejected"

\* C13: the cursor scan has at most one step request outstanding; it has
\* called cursor.continue() once for every entry the cursor delivered; it has
\* one request outstanding while it is pending and none once it has settled.
C13_CursorSequencing ==
  \A i \in Storages :
    storages[i].variant = "FirefoxOS" =>
      /\ outstanding[i] <= 1
      /\ continues[i] = cursor[i]
      /\ cursor[i] <= Len(Enumeration(storages[i].tree))
      /\ deferred[i].state = "pending" => outstanding[i] = 1
      /\ deferred[i].state \in {"resolved", "rejected"} => outstanding[i] = 0

\* C13 witness: a cursor scan over two files has resolved.
C13_Witness ==
  \E i \in Storages :
    /\ storages[i].variant = "FirefoxOS"
    /\ deferred[i].state = "resolved"
    /\ continues[i] = 2

\* the paths of the files of a tree
PathsOfFiles(tree) == {Append(f.dir, f.name) : f \in tree.files}

\* C14: the tree scan never handles the listing of a directory twice and never
\* classifies a file twice; when it has resolved, it has listed every
\* directory of the tree and classified every file exactly once.
C14_TreeCoverage ==
  \A i \in Storages :
    storages[i].variant = "PhoneGap" =>
      /\ \A d \in BagToSet(listed[i]) : CopiesIn(d, listed[i]) = 1
      /\ \A f \in BagToSet(classified[i]) : CopiesIn(f, classified[i]) = 1
      /\ deferred[i].state = "resolved" =>
           /\ BagToSet(listed[i]) = storages[i].tree.dirs
           /\ BagToSet(classified[i]) = PathsOfFiles(storages[i].tree)

\* C14 witness: a tree scan has resolved on a volume with nested and sibling
\* directories and two files.
C14_Witness ==
  \E i \in Storages :
    /\ storages[i].variant = "PhoneGap"
    /\ deferred[i].state = "resolved"
    /\ Cardinality(storages[i].tree.dirs) = 4
    /\ Cardinality(storages[i].tree.files) = 2

\* C15: with a backend that answers every request, a pending scan eventually
\* resolves unless the backend reports an error, in which case it is rejected;
\* the tree scan resolves with its accumulator when its stack is empty, the
\* cursor scan when the cursor has delivered every file.
C15_Termination ==
  /\ [](\A i \in Storages :
          deferred[i].state = "resolved" =>
            /\ deferred[i].value = scanDirs[i]
            /\ stack[i] = <<>>
            /\ cursor[i] = IF storages[i].variant = "FirefoxOS"
                           THEN Len(Enumeration(storages[i].tree)) ELSE 0)
  /\ \A i \in 1..MaxVolumes :
       (i \in Storages /\ deferred[i].state = "pending")
         ~> (i \in Storages /\
               \/ deferred[i].state = "resolved"
               \/ deferred[i].state = "rejected" /\ failure[i] # NoFailure)

\* C15 witness: a scan of a volume with a file in a nested directory has
\* resolved with that file.
C15_Witness ==
  \E i \in Storages :
    /\ deferred[i].state = "resolved"
    /\ [dir |-> <<DirS, DirT>>, name |-> NameZim] \in storages[i].tree.files
    /\ deferred[i].value # <<>>
    /\ outstanding[i] = 0

\* ------------------------------------------------- claims: concurrent scans
\* what the scan of a volume finds when it runs alone: the entries of the
\* files, each classified by the variant's rule, in enumeration order
RECURSIVE ScanAlone(_, _)
ScanAlone(variant, files) ==
  IF files = <<>> THEN <<>>
  ELSE LET f == Head(files)
       IN (IF variant = "FirefoxOS"
           THEN classifyFile(FileNameOf(f))
           ELSE classifyEntry(DirectoryEntry(f.dir), FileEntry(f)))
          \o ScanAlone(variant, Tail(files))

\* the elements of a sequence with the number of times each occurs
BagOf(seq) ==
  [x \in Range(seq) |-> Cardinality({k \in 1..Len(seq) : seq[k] = x})]

\* the state that belongs to the scan of storage i
LocalState(i) ==
  <<deferred[i], scanDirs[i], cursor[i], stack[i], reader[i], outstanding[i]>>

\* the state of the scan of storage i is the one its own volume and the
\* answers of its own backend give it
OwnOutcome(i) ==
  LET variant == storages[i].variant
      enum == Enumeration(storages[i].tree)
  IN /\ variant = "FirefoxOS" =>
          scanDirs[i] = ScanAlone(variant, SubSeq(enum, 1, cursor[i]))
     /\ deferred[i].state = "resolved" =>
          /\ deferred[i].value = scanDirs[i]
          /\ BagOf(deferred[i].value) = BagOf(ScanAlone(variant, enum))
          /\ failure[i] = NoFailure
     /\ deferred[i].state = "rejected" =>
          deferred[i].error = IF variant = "FirefoxOS"
                              THEN failure[i].name
                              ELSE errorCodeToString(failure[i].code)

\* C16: in every interleaving of the callbacks of concurrent scans each
\* volume's scan has the outcome it has alone (the entries of its own volume,
\* or the rejection its own backend reported), and no step changes the
\* accumulator, stack, cursor or promise of more than one scan.
C16_Independence ==
  /\ [](master # "idle" => \A i \in Storages : OwnOutcome(i))
  /\ [][budget' = budget =>
          \A i, j \in Storages :
            (LocalState(i)' # LocalState(i) /\ LocalState(j)' # LocalState(j))
              => i = j]_vars

\* C16 witness: two volumes of different content were scanned concurrently,
\* the second finished first, and both scans resolved with entries.
C16_Witness ==
  /\ Len(storages) = 2
  /\ storages[1].tree # storages[2].tree
  /\ settled = <<2, 1>>
  /\ \A i \in Storages : deferred[i].state = "resolved" /\ deferred[i].value # <<>>

\* ------------------------------------------------------ claims: error kinds
KnownCodes ==
  {QUOTA_EXCEEDED_ERR, NOT_FOUND_ERR, SECURITY_ERR, INVALID_MODIFICATION_ERR,
   INVALID_STATE_ERR}

\* the message each backend code is to be reported with
ExpectedMessage(code) ==
  CASE code = QUOTA_EXCEEDED_ERR -> "QUOTA_EXCEEDED_ERR"
    [] code = NOT_FOUND_ERR -> "NOT_FOUND_ERR"
    [] code = SECURITY_ERR -> "SECURITY_ERR"
    [] code = INVALID_MODIFICATION_ERR -> "INVALID_MODIFICATION_ERR"
    [] code = INVALID_STATE_ERR -> "INVALID_STATE_ERR"
    [] OTHER -> "Unknown Error"

\* the kinds of the error taxonomy; invalid state and invalid modification
\* are messages of one kind
TaxonomyKinds ==
  {"NotFound", "Permission", "QuotaExceeded", "InvalidState", "Unknown"}

TaxonomyKind(message) ==
  CASE message = "NOT_FOUND_ERR" -> "NotFound"
    [] message = "SECURITY_ERR" -> "Permission"
    [] message = "QUOTA_EXCEEDED_ERR" -> "QuotaExceeded"
    [] message \in {"INVALID_STATE_ERR", "INVALID_MODIFICATION_ERR"} ->
         "InvalidState"
    [] message = "Unknown Error" -> "Unknown"
    [] OTHER -> "none"

IsPhoneGap(i) == i \in Storages /\ storages[i].variant = "PhoneGap"

IsSettled(i) == deferred[i].state \in {"resolved", "rejected"}

\* C18: the promise of a scan of either variant settles at most once and
\* keeps the outcome it settled with; once it has settled, no backend request
\* of the scan is outstanding, none is issued, and nothing is appended to the
\* result.
C18_SettleOnce ==
  /\ [](\A i \in Storages :
          /\ IsSettled(i) =>
               /\ outstanding[i] = 0
               /\ Cardinality({k \in 1..Len(settled) : settled[k] = i}) = 1
          /\ deferred[i].state = "pending" =>
               \A k \in 1..Len(settled) : settled[k] # i)
  /\ [][budget' = budget =>
          \A i \in Storages :
            IsSettled(i) =>
              /\ deferred'[i] = deferred[i]
              /\ scanDirs'[i] = scanDirs[i]
              /\ outstanding'[i] = 0
              /\ continues'[i] = continues[i]
              /\ listed'[i] = listed[i]
              /\ Len(settled') = Len(settled)]_vars

\* C18 witness: a tree scan that had found an entry was rejected, and the
\* coordinator has handled the rejection in a later turn.
C18_Witness ==
  \E i \in Storages :
    /\ storages[i].variant = "PhoneGap"
    /\ deferred[i].state = "rejected"
    /\ scanDirs[i] # <<>>
    /\ master = "rejected"
    /\ qQueue = <<>>

\* ---------------------------------------------------- claims: the tree scan
\* the files of the volume of storage i the tree scan has classified so far,
\* in enumeration order
ClassifiedFiles(i) ==
  LET seen(f) == Append(f.dir, f.name) \in BagToSet(classified[i])
  IN SelectSeq(Enumeration(storages[i].tree), seen)

\* C19: the tree scan has at most one directory listing outstanding; the
\* directory whose listing is outstanding is the top of the stack, which is
\* the one the success callback pops; and every entry accumulated so far was
\* built from the path of the directory that contains its file.
C19_ListedIsPopped ==
  \A i \in Storages :
    storages[i].variant = "PhoneGap" /\ master # "idle" =>
      /\ outstanding[i] \in {0, 1}
      /\ outstanding[i] = 1 =>
           /\ stack[i] # <<>>
           /\ reader[i] = <<stack[i][Len(stack[i])]>>
      /\ outstanding[i] = 0 => reader[i] = <<>>
      /\ BagOf(scanDirs[i]) = BagOf(ScanAlone("PhoneGap", ClassifiedFiles(i)))
      /\ \A d \in BagToSet(listed[i]) :
           \A f \in storages[i].tree.files :
             f.dir = d => Append(f.dir, f.name) \in BagToSet(classified[i])

\* C19 witness: with two directories on the stack and an entry already found,
\* the listing of the top one is outstanding.
C19_Witness ==
  \E i \in Storages :
    /\ storages[i].variant = "PhoneGap"
    /\ Len(stack[i]) = 2
    /\ outstanding[i] = 1
    /\ scanDirs[i] # <<>>
    /\ reader[i] = <<stack[i][2]>>

\* --------------------------------------------- claims: the empty volume list
\* C20: given an empty list of storages, the coordinator's scanForArchives has
\* called callbackFunction exactly once, with an empty list of paths, by the
\* time it returns; it reports no error and waits for no scan.
C20_EmptyList ==
  Len(storages) = 0 /\ master # "idle" =>
    /\ master = "resolved"
    /\ callbackArgs = <<[isNull |-> FALSE, list |-> <<>>]>>
    /\ alerts = <<>>
    /\ qQueue = <<>>
    /\ remaining = 0

\* C20 witness: the coordinator was invoked with an empty list and the caller
\* went on after the callback.
C20_Witness ==
  /\ Len(storages) = 0
  /\ budget = 0
  /\ Len(callbackArgs) = 1
  /\ archive = loadArchiveFromFiles

====
